---------------------------- MODULE Spec2Model ----------------------------
(***************************************************************************)
(* Guardrail server: per-backend circuit breakers (circuit_breaker.py),    *)
(* the backend caller call_model (orchestrator.py), the readiness probe    *)
(* and the debug surface (routes.py).                                      *)
(*                                                                         *)
(* The server runs on one asyncio event loop: the code between two         *)
(* suspension points (the POST to a backend, the retry wait) runs without  *)
(* interleaving, so each action below is one such stretch of code.         *)
(* time.monotonic() is the integer variable now.                           *)
(***************************************************************************)
EXTENDS Integers, Sequences, FiniteSets, TLC

\* ------------------------------------------------------------- bounds
MaxTime == 3        \* the monotonic clock runs from 0 to MaxTime
MaxThreshold == 2   \* CB_FAILURE_THRESHOLD and CB_SUCCESS_THRESHOLD are 1 or MaxThreshold
MaxTimeout == 2     \* CB_RECOVERY_TIMEOUT is 1 or MaxTimeout
MaxAttempts == 2    \* RETRY_MAX_ATTEMPTS
MaxEnabled == 2     \* the longest enabled_models list a direct caller passes

\* The concurrent call_model invocations.
Tasks == {"t1", "t2"}

\* ------------------------------------------------------ configuration
\* The keys of settings.model_urls, in the order of the dict.
model_names == <<"prompt-guard", "pii-detect", "hate-detect", "content-class">>

\* settings.model_urls: the configured backends.
model_urls == {model_names[i] : i \in DOMAIN model_names}

\* The names the callers of Spec pass to call_model and to the debug paths:
\* the first configured backend (the breakers of different names share
\* nothing).
Names == {model_names[1]}

\* CircuitState
CLOSED == "CLOSED"
OPEN == "OPEN"
HALF_OPEN == "HALF_OPEN"

\* CircuitState.value
StateValue(s) == CASE s = CLOSED -> 0 [] s = OPEN -> 1 [] s = HALF_OPEN -> 2

VARIABLES
    now,                \* time.monotonic()
    settings,           \* the Settings instance, fixed at start-up
    circuit_breakers,   \* _circuit_breakers: name -> CircuitBreaker
    client_pool,        \* _client_pool: the names with a pooled client
    task,               \* the call_model invocations in flight
    events,             \* the breaker calls made by the last step, in order
    returned,           \* the call_model invocations the last step ended
    request,            \* the validate_text invocations
    response,           \* the answer of GET /v1/ready, when the last step was one
    IN_FLIGHT           \* the gauge guardrail_in_flight_requests

vars == <<now, settings, circuit_breakers, client_pool, task, events, returned, request,
          response, IN_FLIGHT>>

\* ------------------------------------------------------------ breaker

\* CircuitBreaker's fields after construction; gauge is
\* CIRCUIT_STATE_GAUGE.labels(model_name=self.name) and locked tells whether
\* _lock is held.
NewBreaker ==
    [state |-> CLOSED, failure_count |-> 0, success_count |-> 0,
     last_failure_time |-> 0, gauge |-> StateValue(CLOSED), locked |-> FALSE]

\* `async with self._lock` entered: asyncio.Lock.acquire takes a free lock
\* without suspending the caller (on a held lock the caller would be
\* suspended until the release).
lock_acquire(b) == [b EXCEPT !.locked = TRUE]

\* A block that is left without the release of the lock.
lock_release_Missing(b) == b

\* `async with self._lock` left: the lock is released.
lock_release(b) == [b EXCEPT !.locked = FALSE]

\* _transition_to without the reset of failure_count on closing.
transition_to_KeepsFailureCount(b, new_state) ==
    [b EXCEPT !.state = new_state,
              !.gauge = StateValue(new_state),
              !.success_count = IF new_state = HALF_OPEN THEN 0 ELSE @]

\* _transition_to without the reset of success_count on half-opening.
transition_to_KeepsSuccessCount(b, new_state) ==
    [b EXCEPT !.state = new_state,
              !.gauge = StateValue(new_state),
              !.failure_count = IF new_state = CLOSED THEN 0 ELSE @]

\* _transition_to without the update of CIRCUIT_STATE_GAUGE.
transition_to_SkipsGauge(b, new_state) ==
    [b EXCEPT !.state = new_state,
              !.failure_count = IF new_state = CLOSED THEN 0 ELSE @,
              !.success_count = IF new_state = HALF_OPEN THEN 0 ELSE @]

\* CircuitBreaker._transition_to
transition_to(b, new_state) ==
    [b EXCEPT !.state = new_state,
              !.gauge = StateValue(new_state),
              !.failure_count = IF new_state = CLOSED THEN 0 ELSE @,
              !.success_count = IF new_state = HALF_OPEN THEN 0 ELSE @]

\* The state property with > for >= in the timeout check.
state_property_StrictTimeout(b, t) ==
    IF b.state = OPEN /\ t - b.last_failure_time > settings.CB_RECOVERY_TIMEOUT
    THEN [b EXCEPT !.state = HALF_OPEN, !.gauge = StateValue(HALF_OPEN), !.success_count = 0]
    ELSE b

\* The state property comparing the clock itself with the timeout.
state_property_IgnoresLastFailure(b, t) ==
    IF b.state = OPEN /\ t >= settings.CB_RECOVERY_TIMEOUT
    THEN [b EXCEPT !.state = HALF_OPEN, !.gauge = StateValue(HALF_OPEN), !.success_count = 0]
    ELSE b

\* The state property making the transition on every read once the timeout
\* has elapsed, in Half-Open as in Open.
state_property_ResetsInHalfOpen(b, t) ==
    IF b.state \in {OPEN, HALF_OPEN} /\ t - b.last_failure_time >= settings.CB_RECOVERY_TIMEOUT
    THEN transition_to(b, HALF_OPEN)
    ELSE b

\* CircuitBreaker.state (the property): the breaker after the timeout check.
state_property(b, t) ==
    IF b.state = OPEN /\ t - b.last_failure_time >= settings.CB_RECOVERY_TIMEOUT
    THEN transition_to(b, HALF_OPEN)
    ELSE b

\* CircuitBreaker.allow_request: the breaker afterwards and the value returned.
allow_request(b, t) ==
    LET c == state_property(b, t)
    IN  [cb |-> c, ret |-> (c.state = CLOSED \/ c.state = HALF_OPEN)]

\* record_success counting successes in every state but Closed.
record_success_CountsWhenOpen(b) ==
    IF b.state # CLOSED
    THEN LET c == [b EXCEPT !.success_count = @ + 1]
         IN  IF c.success_count >= settings.CB_SUCCESS_THRESHOLD
             THEN transition_to(c, CLOSED)
             ELSE c
    ELSE [b EXCEPT !.failure_count = 0]

\* record_success with > for >= in the threshold check.
record_success_StrictThreshold(b) ==
    IF b.state = HALF_OPEN
    THEN LET c == [b EXCEPT !.success_count = @ + 1]
         IN  IF c.success_count > settings.CB_SUCCESS_THRESHOLD
             THEN transition_to(c, CLOSED)
             ELSE c
    ELSE IF b.state = CLOSED
         THEN [b EXCEPT !.failure_count = 0]
         ELSE b

\* The body of record_success, run with the lock held.
record_success_locked(b) ==
    IF b.state = HALF_OPEN
    THEN LET c == [b EXCEPT !.success_count = @ + 1]
         IN  IF c.success_count >= settings.CB_SUCCESS_THRESHOLD
             THEN transition_to(c, CLOSED)
             ELSE c
    ELSE IF b.state = CLOSED
         THEN [b EXCEPT !.failure_count = 0]
         ELSE b

\* CircuitBreaker.record_success
record_success(b) == lock_release(record_success_locked(lock_acquire(b)))

\* record_failure with > for >= in the threshold check.
record_failure_StrictThreshold(b, t) ==
    LET c == [b EXCEPT !.failure_count = @ + 1, !.last_failure_time = t]
    IN  IF c.state = HALF_OPEN
        THEN transition_to(c, OPEN)
        ELSE IF c.state = CLOSED /\ c.failure_count > settings.CB_FAILURE_THRESHOLD
             THEN transition_to(c, OPEN)
             ELSE c

\* record_failure applying the threshold in Half-Open as in Closed.
record_failure_HalfOpenNeedsThreshold(b, t) ==
    LET c == [b EXCEPT !.failure_count = @ + 1, !.last_failure_time = t]
    IN  IF c.state \in {CLOSED, HALF_OPEN} /\ c.failure_count >= settings.CB_FAILURE_THRESHOLD
        THEN transition_to(c, OPEN)
        ELSE c

\* record_failure leaving last_failure_time alone once the breaker is Open.
record_failure_locked_KeepsTimeWhenOpen(b, t) ==
    IF b.state = OPEN
    THEN [b EXCEPT !.failure_count = @ + 1]
    ELSE LET c == [b EXCEPT !.failure_count = @ + 1, !.last_failure_time = t]
         IN  IF c.state = HALF_OPEN
             THEN transition_to(c, OPEN)
             ELSE IF c.failure_count >= settings.CB_FAILURE_THRESHOLD
                  THEN transition_to(c, OPEN)
                  ELSE c

\* The body of record_failure, run with the lock held.
record_failure_locked(b, t) ==
    LET c == [b EXCEPT !.failure_count = @ + 1, !.last_failure_time = t]
    IN  IF c.state = HALF_OPEN
        THEN transition_to(c, OPEN)
        ELSE IF c.state = CLOSED /\ c.failure_count >= settings.CB_FAILURE_THRESHOLD
             THEN transition_to(c, OPEN)
             ELSE c

\* CircuitBreaker.record_failure
record_failure(b, t) == lock_release(record_failure_locked(lock_acquire(b), t))

\* CircuitBreaker.force_close
force_close(b) == transition_to(b, CLOSED)

\* force_open without the assignment of _last_failure_time.
force_open_KeepsLastFailureTime(b, t) == transition_to(b, OPEN)

\* CircuitBreaker.force_open
force_open(b, t) == transition_to([b EXCEPT !.last_failure_time = t], OPEN)

\* get_status reading the stored _state, without the timeout check.
get_status_ReadsStoredState(b, t) ==
    [cb |-> b,
     ret |-> [state |-> b.state, failure_count |-> b.failure_count,
              success_count |-> b.success_count,
              last_failure_time |-> b.last_failure_time]]

\* CircuitBreaker.get_status: the breaker afterwards and the snapshot returned.
get_status(b, t) ==
    LET c == state_property(b, t)
    IN  [cb |-> c,
         ret |-> [state |-> c.state, failure_count |-> c.failure_count,
                  success_count |-> c.success_count,
                  last_failure_time |-> c.last_failure_time]]

\* One call on the breaker of `name`: the breaker before and after it, what it
\* returned and the time it was made at.
Event(op, name, pre, post, ret) ==
    [op |-> op, name |-> name, pre |-> pre, post |-> post, ret |-> ret, time |-> now]

\* get_circuit_breaker: the breaker of `name`, created on the first reference.
get_circuit_breaker(name) ==
    IF name \in DOMAIN circuit_breakers THEN circuit_breakers[name] ELSE NewBreaker

\* The event of the creation, when get_circuit_breaker(name) creates.
CreateEvents(name) ==
    IF name \in DOMAIN circuit_breakers
    THEN << >>
    ELSE << Event("create", name, NewBreaker, NewBreaker, "None") >>

\* A registry whose names all refer to one breaker object.
Registry_Shared(name, b) ==
    [n \in DOMAIN circuit_breakers \cup {name} |-> b]

\* _circuit_breakers with the breaker of `name` set to b.
Registry(name, b) ==
    [n \in DOMAIN circuit_breakers \cup {name} |->
        IF n = name THEN b ELSE circuit_breakers[n]]

\* The steps that are not GET /v1/ready give no answer of that route.
NoAnswer == [status_code |-> 0, not_initialized |-> FALSE, available_models |-> << >>]

\* --------------------------------------------------------- call_model

\* A call_model invocation that has not started; a finished one leaves in
\* `returned` with pc = "done" and its ModelCallResult in result. posts, retries and
\* latency_obs count its POSTs, its RETRY_COUNT increments and its
\* MODEL_CALL_LATENCY observations; n_success and n_failure count its
\* record_success and record_failure calls; outcome is how its last attempt
\* ended (tenacity's retry_state.outcome).
IdleTask ==
    [pc |-> "idle", model_name |-> "none", attempt_number |-> 0, posts |-> 0,
     retries |-> 0, latency_obs |-> 0, n_success |-> 0, n_failure |-> 0,
     outcome |-> "none", result |-> "none"]

\* How one POST /predict can end: a 2xx reply with a valid body, a 2xx reply
\* that ModelPredictResponse.model_validate rejects, a non-2xx reply
\* (raise_for_status), httpx.TimeoutException, httpx.ConnectError, any other
\* exception.
Replies == {"ok", "invalid_body", "http_status", "timeout", "connect_error", "other_error"}

\* retry_if_exception_type((httpx.TimeoutException, httpx.ConnectError))
retryable(reply) == reply \in {"timeout", "connect_error"}

\* The retry predicate applied to every failed attempt, whatever its kind.
should_retry_AnyFailure(reply, attempt_number) ==
    /\ settings.RETRY_ENABLED
    /\ reply # "ok"
    /\ attempt_number < settings.RETRY_MAX_ATTEMPTS

\* Whether the attempt that ended in `reply` is followed by another one:
\* settings.RETRY_ENABLED chooses the decorated function, whose
\* stop_after_attempt(RETRY_MAX_ATTEMPTS) stops once attempt_number reaches it.
should_retry(reply, attempt_number) ==
    /\ settings.RETRY_ENABLED
    /\ retryable(reply)
    /\ attempt_number < settings.RETRY_MAX_ATTEMPTS

\* The 2xx replies: _call_with_retry observes MODEL_CALL_LATENCY after
\* raise_for_status and before model_validate.
observes_latency(reply) == reply \in {"ok", "invalid_body"}

\* call_model without its last except clause: an exception that is none of
\* the three httpx ones leaves call_model.
result_of_NoCatchAll(reply) ==
    CASE reply = "ok" -> "success"
      [] reply = "timeout" -> "timeout"
      [] reply = "connect_error" -> "connect_error"
      [] reply = "http_status" -> "http_status"
      [] OTHER -> "raised"

\* The ModelCallResult of a call whose last attempt ended in `reply`: the
\* try block's return, or the except clause that catches it.
result_of(reply) ==
    CASE reply = "ok" -> "success"
      [] reply = "timeout" -> "timeout"
      [] reply = "connect_error" -> "connect_error"
      [] reply = "http_status" -> "http_status"
      [] OTHER -> "error"

\* The early return counting the rejection as a failure.
call_model_rejected_RecordsFailure(tk, name, b) ==
    [task |-> [tk EXCEPT !.pc = "done", !.model_name = name, !.result = "breaker_open",
                         !.n_failure = @ + 1],
     cb |-> record_failure(b, now),
     events |-> << Event("record_failure", name, b, record_failure(b, now), "None") >>]

\* call_model when allow_request returned False: the early return.
call_model_rejected(tk, name, b) ==
    [task |-> [tk EXCEPT !.pc = "done", !.model_name = name, !.result = "breaker_open"],
     cb |-> b,
     events |-> << >>]

\* call_model without the clause that catches an unexpected exception: the
\* exception leaves call_model and nothing is recorded on the breaker.
call_model_finish_Propagates(tk, name, b, reply) ==
    IF reply = "ok"
    THEN [task |-> [tk EXCEPT !.pc = "done", !.result = result_of(reply),
                              !.n_success = @ + 1],
          cb |-> record_success(b),
          events |-> << Event("record_success", name, b, record_success(b), "None") >>]
    ELSE IF reply = "other_error"
    THEN [task |-> [tk EXCEPT !.pc = "done", !.result = "raised"],
          cb |-> b,
          events |-> << >>]
    ELSE [task |-> [tk EXCEPT !.pc = "done", !.result = result_of(reply),
                              !.n_failure = @ + 1],
          cb |-> record_failure(b, now),
          events |-> << Event("record_failure", name, b, record_failure(b, now), "None") >>]

\* call_model returning a prediction without recording the success.
call_model_finish_ForgetsSuccess(tk, name, b, reply) ==
    IF reply = "ok"
    THEN [task |-> [tk EXCEPT !.pc = "done", !.result = result_of(reply)],
          cb |-> b,
          events |-> << >>]
    ELSE [task |-> [tk EXCEPT !.pc = "done", !.result = result_of(reply),
                              !.n_failure = @ + 1],
          cb |-> record_failure(b, now),
          events |-> << Event("record_failure", name, b, record_failure(b, now), "None") >>]

\* call_model once its call has ended in `reply` for good: record_success
\* after the try block's call, record_failure in each except clause.
call_model_finish(tk, name, b, reply) ==
    IF reply = "ok"
    THEN [task |-> [tk EXCEPT !.pc = "done", !.result = result_of(reply),
                              !.n_success = @ + 1],
          cb |-> record_success(b),
          events |-> << Event("record_success", name, b, record_success(b), "None") >>]
    ELSE [task |-> [tk EXCEPT !.pc = "done", !.result = result_of(reply),
                              !.n_failure = @ + 1],
          cb |-> record_failure(b, now),
          events |-> << Event("record_failure", name, b, record_failure(b, now), "None") >>]

\* The retry recording the failed attempt on the breaker.
call_model_retry_RecordsFailure(tk, name, b) ==
    [task |-> [tk EXCEPT !.pc = "sleep", !.retries = @ + 1, !.n_failure = @ + 1],
     cb |-> record_failure(b, now),
     events |-> << Event("record_failure", name, b, record_failure(b, now), "None") >>]

\* call_model when tenacity schedules another attempt: before_retry_log counts
\* the retry and the breaker is left alone.
call_model_retry(tk, name, b) ==
    [task |-> [tk EXCEPT !.pc = "sleep", !.retries = @ + 1],
     cb |-> b,
     events |-> << >>]

\* CancelledError caught like a failure of the backend.
call_model_cancelled_RecordsFailure(tk, name, b) ==
    [task |-> IdleTask,
     cb |-> record_failure(b, now),
     events |-> << Event("record_failure", name, b, record_failure(b, now), "None") >>]

\* call_model when its task is cancelled while it waits for the POST or for
\* the retry wait: asyncio.CancelledError is not an Exception, so no except
\* clause of call_model catches it and the call ends without touching the
\* breaker.
call_model_cancelled(tk, name, b) ==
    [task |-> IdleTask,
     cb |-> b,
     events |-> << >>]

\* call_model up to its first suspension: the breaker check, and when it
\* admits the call, the first attempt's get_shared_client and POST. An
\* unconfigured name makes get_shared_client raise ValueError inside the try
\* block, which the last except clause catches.
call_model_begin(t, name) ==
    /\ task[t].pc = "idle"
    /\ LET b0 == get_circuit_breaker(name)
           ar == allow_request(b0, now)
           evs == CreateEvents(name) \o << Event("allow_request", name, b0, ar.cb, ar.ret) >>
       IN  IF ~ar.ret
           THEN LET out == call_model_rejected(task[t], name, ar.cb)
                IN  /\ returned' = << out.task >>
                    /\ circuit_breakers' = Registry(name, out.cb)
                    /\ events' = evs \o out.events
                    /\ UNCHANGED <<client_pool, task>>
           ELSE IF name \notin model_urls
           THEN LET tk == [task[t] EXCEPT !.model_name = name, !.attempt_number = 1,
                                          !.outcome = "other_error"]
                    out == call_model_finish(tk, name, ar.cb, "other_error")
                IN  /\ returned' = << out.task >>
                    /\ circuit_breakers' = Registry(name, out.cb)
                    /\ events' = evs \o out.events
                    /\ UNCHANGED <<client_pool, task>>
           ELSE /\ task' = [task EXCEPT ![t] = [@ EXCEPT !.pc = "post", !.model_name = name,
                                                        !.attempt_number = 1, !.posts = 1]]
                /\ circuit_breakers' = Registry(name, ar.cb)
                /\ client_pool' = client_pool \cup {name}
                /\ events' = evs
                /\ returned' = << >>
    /\ response' = NoAnswer
    /\ UNCHANGED <<now, settings, IN_FLIGHT>>

\* The POST of task t ends in `reply`: either tenacity schedules another
\* attempt (before_sleep counts the retry, then the fixed wait), or the call
\* ends and its outcome is recorded on the breaker.
call_model_post_returns(t, reply) ==
    /\ task[t].pc = "post"
    /\ LET name == task[t].model_name
           tk == [task[t] EXCEPT !.latency_obs = IF observes_latency(reply) THEN @ + 1 ELSE @,
                                 !.outcome = reply]
       IN  IF should_retry(reply, tk.attempt_number)
           THEN LET out == call_model_retry(tk, name, circuit_breakers[name])
                IN  /\ task' = [task EXCEPT ![t] = out.task]
                    /\ circuit_breakers' = Registry(name, out.cb)
                    /\ events' = out.events
                    /\ returned' = << >>
           ELSE LET out == call_model_finish(tk, name, circuit_breakers[name], reply)
                IN  /\ task' = [task EXCEPT ![t] = IdleTask]
                    /\ returned' = << out.task >>
                    /\ circuit_breakers' = Registry(name, out.cb)
                    /\ events' = out.events
    /\ response' = NoAnswer
    /\ UNCHANGED <<now, settings, client_pool, IN_FLIGHT>>

\* The retry wait of task t is over: the next attempt's POST.
call_model_next_attempt(t) ==
    /\ task[t].pc = "sleep"
    /\ task' = [task EXCEPT ![t] = [@ EXCEPT !.pc = "post", !.attempt_number = @ + 1,
                                             !.posts = @ + 1, !.outcome = "none"]]
    /\ events' = << >>
    /\ returned' = << >>
    /\ response' = NoAnswer
    /\ UNCHANGED <<now, settings, circuit_breakers, client_pool, IN_FLIGHT>>

\* A call_model invocation that no validate_text is waiting for: its start,
\* the end of its POST, the end of its retry wait.
CallModel(t, name) == call_model_begin(t, name) /\ UNCHANGED request

PostReturns(t, reply) == call_model_post_returns(t, reply) /\ UNCHANGED request

RetryAttempt(t) == call_model_next_attempt(t) /\ UNCHANGED request

\* ----------------------------------------------------------- routes

\* A set as a sequence, in some fixed order.
RECURSIVE SetToSeq(_)
SetToSeq(S) ==
    IF S = {} THEN << >>
    ELSE LET x == CHOOSE y \in S : TRUE IN << x >> \o SetToSeq(S \ {x})

\* The answer of GET /v1/ready that reports a backend available whenever
\* its breaker exists.
ready_answer_IgnoresBreakers(names, allowed) ==
    IF names = << >>
    THEN [status_code |-> 200, not_initialized |-> TRUE, available_models |-> << >>]
    ELSE [status_code |-> 200, not_initialized |-> FALSE, available_models |-> names]

\* The answer of GET /v1/ready after its loop: names are the keys of the
\* registry in the order of the loop and allowed[n] is what allow_request
\* returned on the breaker of n. not_initialized stands for the answer whose
\* available_models is "all (not initialized)".
ready_answer(names, allowed) ==
    LET available_models == SelectSeq(names, LAMBDA n : allowed[n])
    IN  IF names = << >>
        THEN [status_code |-> 200, not_initialized |-> TRUE, available_models |-> << >>]
        ELSE IF available_models # << >>
        THEN [status_code |-> 200, not_initialized |-> FALSE,
              available_models |-> available_models]
        ELSE [status_code |-> 503, not_initialized |-> FALSE, available_models |-> << >>]

\* GET /v1/ready: allow_request on every breaker of the registry.
Ready ==
    /\ circuit_breakers' =
          [n \in DOMAIN circuit_breakers |-> allow_request(circuit_breakers[n], now).cb]
    /\ events' =
          LET names == SetToSeq(DOMAIN circuit_breakers)
          IN  [i \in 1..Len(names) |->
                 LET ar == allow_request(circuit_breakers[names[i]], now)
                 IN  Event("allow_request", names[i], circuit_breakers[names[i]], ar.cb, ar.ret)]
    /\ response' =
          ready_answer(SetToSeq(DOMAIN circuit_breakers),
                       [n \in DOMAIN circuit_breakers |->
                           allow_request(circuit_breakers[n], now).ret])
    /\ returned' = << >>
    /\ UNCHANGED <<now, settings, client_pool, task, request, IN_FLIGHT>>

\* GET /debug/circuit-breakers: get_status on every breaker of the registry.
GetCircuitBreakerStatus ==
    /\ circuit_breakers' =
          [n \in DOMAIN circuit_breakers |-> get_status(circuit_breakers[n], now).cb]
    /\ events' =
          LET names == SetToSeq(DOMAIN circuit_breakers)
          IN  [i \in 1..Len(names) |->
                 LET gs == get_status(circuit_breakers[names[i]], now)
                 IN  Event("get_status", names[i], circuit_breakers[names[i]], gs.cb, gs.ret)]
    /\ returned' = << >>
    /\ response' = NoAnswer
    /\ UNCHANGED <<now, settings, client_pool, task, request, IN_FLIGHT>>

\* POST /debug/circuit-breakers/{name}/close
ForceCloseCircuitBreaker(name) ==
    /\ LET b == get_circuit_breaker(name)
       IN  /\ circuit_breakers' = Registry(name, force_close(b))
           /\ events' = CreateEvents(name) \o << Event("force_close", name, b, force_close(b), "None") >>
    /\ returned' = << >>
    /\ response' = NoAnswer
    /\ UNCHANGED <<now, settings, client_pool, task, request, IN_FLIGHT>>

\* POST /debug/circuit-breakers/{name}/open
ForceOpenCircuitBreaker(name) ==
    /\ LET b == get_circuit_breaker(name)
       IN  /\ circuit_breakers' = Registry(name, force_open(b, now))
           /\ events' = CreateEvents(name) \o << Event("force_open", name, b, force_open(b, now), "None") >>
    /\ returned' = << >>
    /\ response' = NoAnswer
    /\ UNCHANGED <<now, settings, client_pool, task, request, IN_FLIGHT>>

\* The monotonic clock advances.
Tick ==
    /\ now < MaxTime
    /\ now' = now + 1
    /\ events' = << >>
    /\ returned' = << >>
    /\ response' = NoAnswer
    /\ UNCHANGED <<settings, circuit_breakers, client_pool, task, request, IN_FLIGHT>>

\* ------------------------------------------------------ validate_text

\* AggregationStrategy
ANY_FLAG == "any_flag"
ALL_FLAG == "all_flag"
MAJORITY == "majority"
THRESHOLD == "threshold"
AggregationStrategy == {ANY_FLAG, ALL_FLAG, MAJORITY, THRESHOLD}

\* ModelPredictResponse.score, in halves: 0, 1 and 2 are 0.0, 0.5 and 1.0.
Scores == {0, 1, 2}

\* The ModelPredictResponse bodies that model_validate accepts, as far as
\* validate_text reads them.
Predictions == [flagged : BOOLEAN, score : Scores, latency_ms : {0}]

\* The bodies of 2xx replies, valid or not: the score runs from below 0.0 to
\* above 1.0 and latency_ms from below 0.
RawBodies == [flagged : BOOLEAN, score : {-1, 0, 2, 3}, latency_ms : {-1, 0}]

\* ModelCallResult.response of a call that failed (None); also the body of a
\* reply that has none that can be read.
NoResponse == [flagged |-> FALSE, score |-> 0, latency_ms |-> 0]

\* model_validate without the bounds of score.
model_validate_NoScoreBounds(body) == body.latency_ms >= 0

\* Whether ModelPredictResponse.model_validate accepts the body: score has
\* ge=0.0 and le=1.0 (0 to 2 in halves), latency_ms has ge=0.
model_validate(body) ==
    /\ body.score >= 0
    /\ body.score <= 2
    /\ body.latency_ms >= 0

\* The slot of gather() for a call that has not ended.
PendingResult ==
    [done |-> FALSE, model_name |-> "none", success |-> FALSE, raised |-> FALSE,
     response |-> NoResponse, body |-> NoResponse]

\* What the call_model invocation tk hands to gather(): its ModelCallResult,
\* whose response is the parsed body when it succeeded, or its exception.
\* body keeps the body of the last reply as it was received.
call_result(tk, body) ==
    [done |-> TRUE, model_name |-> tk.model_name, success |-> tk.result = "success",
     raised |-> tk.result = "raised",
     response |-> IF tk.result = "success" THEN body ELSE NoResponse,
     body |-> body]

\* ValidateResponse before validate_text has built one.
NoVerdict ==
    [flagged |-> FALSE, flag_reasons |-> << >>, model_results |-> << >>,
     partial_failure |-> FALSE, failed_models |-> << >>]

\* A validate_text invocation that has not started. results are the slots of
\* gather(), one per enabled model; order lists the slots in the order their
\* calls ended; route tells whether POST /v1/validate made the invocation and
\* status_code is that route's answer. REQUEST_TOTAL lists the labels of the
\* increments the invocation made on the counter guardrail_request_total and
\* REQUEST_LATENCY counts its observations of guardrail_request_latency_seconds.
IdleRequest ==
    [pc |-> "idle", enabled_models |-> << >>, strategy |-> ANY_FLAG, route |-> FALSE,
     results |-> << >>, order |-> << >>, verdict |-> NoVerdict, status_code |-> 0,
     REQUEST_TOTAL |-> << >>, REQUEST_LATENCY |-> 0]

\* gather() handing back the results in the order the calls ended.
gather_results_CompletionOrder(req) ==
    [k \in 1..Len(req.order) |-> req.results[req.order[k]]]

\* What `await asyncio.gather(*tasks)` evaluates to: the results in the order
\* of the awaitables.
gather_results(req) == req.results

\* gather() resuming validate_text as soon as one call has ended.
gather_done_FirstCompleted(req) ==
    \/ Len(req.results) = 0
    \/ \E i \in DOMAIN req.results : req.results[i].done

\* Whether gather() resumes validate_text: every call has ended, or one has
\* raised.
gather_done(req) ==
    \/ \A i \in DOMAIN req.results : req.results[i].done
    \/ \E i \in DOMAIN req.results : req.results[i].raised

\* The names of a sequence of results.
RECURSIVE names_of(_)
names_of(rs) ==
    IF rs = << >> THEN << >> ELSE << Head(rs).model_name >> \o names_of(Tail(rs))

\* The flag_reasons entries of a sequence of results.
RECURSIVE reasons_of(_)
reasons_of(rs) ==
    IF rs = << >> THEN << >>
    ELSE << Head(rs).model_name \o "_flagged" >> \o reasons_of(Tail(rs))

\* The number of elements of S that satisfy flags.
RECURSIVE sum_flags(_, _)
sum_flags(model_results, S) ==
    IF S = {} THEN 0
    ELSE LET n == CHOOSE m \in S : TRUE
         IN  (IF model_results[n].flagged THEN 1 ELSE 0) + sum_flags(model_results, S \ {n})

\* The sum of the scores (in halves) of the elements of S.
RECURSIVE sum_scores(_, _)
sum_scores(model_results, S) ==
    IF S = {} THEN 0
    ELSE LET n == CHOOSE m \in S : TRUE
         IN  model_results[n].score + sum_scores(model_results, S \ {n})

\* aggregate_results with all() of no flags (true) under ALL_FLAG.
aggregate_results_AllOfNone(model_results, strategy) ==
    CASE strategy = ANY_FLAG -> \E n \in DOMAIN model_results : model_results[n].flagged
      [] strategy = ALL_FLAG -> \A n \in DOMAIN model_results : model_results[n].flagged
      [] strategy = MAJORITY ->
            DOMAIN model_results # {} /\
            2 * sum_flags(model_results, DOMAIN model_results) > Cardinality(DOMAIN model_results)
      [] strategy = THRESHOLD ->
            DOMAIN model_results # {} /\
            sum_scores(model_results, DOMAIN model_results) > Cardinality(DOMAIN model_results)
      [] OTHER -> FALSE

\* aggregate_results with >= for > under MAJORITY.
aggregate_results_MajorityOnTie(model_results, strategy) ==
    IF DOMAIN model_results = {}
    THEN FALSE
    ELSE CASE strategy = ANY_FLAG -> \E n \in DOMAIN model_results : model_results[n].flagged
           [] strategy = ALL_FLAG -> \A n \in DOMAIN model_results : model_results[n].flagged
           [] strategy = MAJORITY ->
                 2 * sum_flags(model_results, DOMAIN model_results)
                    >= Cardinality(DOMAIN model_results)
           [] strategy = THRESHOLD ->
                 sum_scores(model_results, DOMAIN model_results)
                    > Cardinality(DOMAIN model_results)
           [] OTHER -> FALSE

\* aggregate_results with >= for > under THRESHOLD.
aggregate_results_ThresholdAtHalf(model_results, strategy) ==
    IF DOMAIN model_results = {}
    THEN FALSE
    ELSE CASE strategy = ANY_FLAG -> \E n \in DOMAIN model_results : model_results[n].flagged
           [] strategy = ALL_FLAG -> \A n \in DOMAIN model_results : model_results[n].flagged
           [] strategy = MAJORITY ->
                 2 * sum_flags(model_results, DOMAIN model_results)
                    > Cardinality(DOMAIN model_results)
           [] strategy = THRESHOLD ->
                 sum_scores(model_results, DOMAIN model_results)
                    >= Cardinality(DOMAIN model_results)
           [] OTHER -> FALSE

\* aggregate_results flagging the text when no backend answered.
aggregate_results_FailClosed(model_results, strategy) ==
    IF DOMAIN model_results = {}
    THEN TRUE
    ELSE CASE strategy = ANY_FLAG -> \E n \in DOMAIN model_results : model_results[n].flagged
           [] strategy = ALL_FLAG -> \A n \in DOMAIN model_results : model_results[n].flagged
           [] strategy = MAJORITY ->
                 2 * sum_flags(model_results, DOMAIN model_results)
                    > Cardinality(DOMAIN model_results)
           [] strategy = THRESHOLD ->
                 sum_scores(model_results, DOMAIN model_results)
                    > Cardinality(DOMAIN model_results)
           [] OTHER -> FALSE

\* aggregate_results. sum(flags) > len(flags) / 2 is compared after doubling
\* both sides; the mean of the scores, which are in halves, exceeds 0.5 when
\* their sum exceeds their number.
aggregate_results(model_results, strategy) ==
    IF DOMAIN model_results = {}
    THEN FALSE
    ELSE CASE strategy = ANY_FLAG -> \E n \in DOMAIN model_results : model_results[n].flagged
           [] strategy = ALL_FLAG -> \A n \in DOMAIN model_results : model_results[n].flagged
           [] strategy = MAJORITY ->
                 2 * sum_flags(model_results, DOMAIN model_results)
                    > Cardinality(DOMAIN model_results)
           [] strategy = THRESHOLD ->
                 sum_scores(model_results, DOMAIN model_results)
                    > Cardinality(DOMAIN model_results)
           [] OTHER -> FALSE

\* validate_text after gather(): the loop over the results, which fills
\* model_results (a dict: a later result of the same name replaces an earlier
\* one), failed_models and flag_reasons, then the aggregation.
validate_text_verdict(req) ==
    LET rs == gather_results(req)
        good == SelectSeq(rs, LAMBDA x : x.success)
        last(n) == CHOOSE i \in DOMAIN good :
                      /\ good[i].model_name = n
                      /\ \A j \in DOMAIN good : good[j].model_name = n => j <= i
        model_results == [n \in {good[i].model_name : i \in DOMAIN good} |->
                             good[last(n)].response]
        failed_models == names_of(SelectSeq(rs, LAMBDA x : ~x.success))
    IN  [flagged |-> aggregate_results(model_results, req.strategy),
         flag_reasons |-> reasons_of(SelectSeq(rs, LAMBDA x : x.success /\ x.response.flagged)),
         model_results |-> model_results,
         partial_failure |-> Len(failed_models) > 0,
         failed_models |-> failed_models]

\* POST /v1/validate answering 503 as soon as one backend failed.
validate_status_AnyFailure(verdict) ==
    IF verdict.partial_failure THEN 503 ELSE 200

\* POST /v1/validate after validate_text returned: the status of the answer.
validate_status(verdict) ==
    IF verdict.partial_failure /\ Len(verdict.failed_models) = 4 THEN 503 ELSE 200

\* str(flagged).lower()
str_lower(flag) == IF flag THEN "true" ELSE "false"

\* The labels that count a request whose backends all failed as an error.
request_total_labels_AllFailedIsError(verdict) ==
    [status |-> IF verdict.failed_models = << >> THEN "success"
                ELSE IF DOMAIN verdict.model_results = {} THEN "error"
                ELSE "partial",
     flagged |-> str_lower(verdict.flagged)]

\* The labels of the REQUEST_TOTAL increment validate_text makes before it
\* returns its verdict.
request_total_labels(verdict) ==
    [status |-> IF verdict.failed_models = << >> THEN "success" ELSE "partial",
     flagged |-> str_lower(verdict.flagged)]

\* The labels of the REQUEST_TOTAL increment of the except clause.
error_labels == [status |-> "error", flagged |-> "false"]

\* The task that runs call number i of request r.
child(r, i) == <<r, i>>

\* validate_text up to gather(): IN_FLIGHT.inc(), then the request waits for
\* one call_model per entry of enabled_models.
validate_text_begin(r, enabled_models, strategy, route) ==
    /\ request[r].pc \notin {"gather", "cancelling"}
    /\ \A i \in DOMAIN request[r].results : task[child(r, i)].pc = "idle"
    /\ request' = [request EXCEPT ![r] =
          [pc |-> "gather", enabled_models |-> enabled_models, strategy |-> strategy,
           route |-> route,
           results |-> [i \in 1..Len(enabled_models) |-> PendingResult],
           order |-> << >>, verdict |-> NoVerdict, status_code |-> 0,
           REQUEST_TOTAL |-> << >>, REQUEST_LATENCY |-> 0]]
    /\ IN_FLIGHT' = IN_FLIGHT + 1
    /\ events' = << >>
    /\ returned' = << >>
    /\ response' = NoAnswer
    /\ UNCHANGED <<now, settings, circuit_breakers, client_pool, task>>

\* A direct call of validate_text.
ValidateText(r, enabled_models, strategy) ==
    validate_text_begin(r, enabled_models, strategy, FALSE)

\* POST /v1/validate: validate_text with enabled_models = None, which stands
\* for the keys of settings.model_urls, and the ANY_FLAG strategy.
Validate(r) == validate_text_begin(r, model_names, ANY_FLAG, TRUE)

\* The request r after call number i has ended in the task record tk.
deliver(r, i, tk, body) ==
    [request EXCEPT ![r].results[i] = call_result(tk, body),
                    ![r].order = Append(@, i)]

\* The event loop runs the calls gather() scheduled, in their order: call
\* number i of request r starts.
GatherCall(r, i) ==
    /\ request[r].pc = "gather"
    /\ i \in DOMAIN request[r].results
    /\ ~request[r].results[i].done
    /\ \A j \in 1..(i - 1) :
          request[r].results[j].done \/ task[child(r, j)].pc # "idle"
    /\ call_model_begin(child(r, i), request[r].enabled_models[i])
    /\ request' = IF returned' = << >> THEN request
                  ELSE deliver(r, i, returned'[1], NoResponse)

\* The POST of call number i of request r ends in `reply`; `body` is the
\* body of a 2xx reply: one that model_validate accepts when the reply is
\* "ok", one that it rejects, or none that can be read, when the reply is
\* "invalid_body".
ChildReturns(r, i, reply, body) ==
    /\ request[r].pc \in {"gather", "raised"}
    /\ i \in DOMAIN request[r].results
    /\ reply = "ok" => model_validate(body)
    /\ reply = "invalid_body" => (body = NoResponse \/ ~model_validate(body))
    /\ reply \notin {"ok", "invalid_body"} => body = NoResponse
    /\ call_model_post_returns(child(r, i), reply)
    /\ request' = IF returned' = << >> \/ request[r].pc = "raised" THEN request
                  ELSE deliver(r, i, returned'[1], body)

\* The retry wait of call number i of request r is over.
ChildRetry(r, i) ==
    /\ i \in DOMAIN request[r].results
    /\ call_model_next_attempt(child(r, i))
    /\ UNCHANGED request

\* validate_text after gather(): it observes REQUEST_LATENCY, increments
\* REQUEST_TOTAL and returns the verdict, or its except clause increments
\* REQUEST_TOTAL and raises again what a call raised; IN_FLIGHT.dec() runs in
\* its finally clause; the route answers with the verdict, with 503, or with
\* 500.
ValidateTextReturns(r) ==
    /\ request[r].pc = "gather"
    /\ gather_done(request[r])
    /\ LET req == request[r]
           verdict == validate_text_verdict(req)
       IN  request' = [request EXCEPT ![r] =
              IF \E i \in DOMAIN req.results : req.results[i].raised
              THEN [req EXCEPT !.pc = "raised",
                               !.REQUEST_TOTAL = Append(@, error_labels),
                               !.status_code = IF req.route THEN 500 ELSE 0]
              ELSE [req EXCEPT !.pc = "done", !.verdict = verdict,
                               !.REQUEST_LATENCY = @ + 1,
                               !.REQUEST_TOTAL = Append(@, request_total_labels(verdict)),
                               !.status_code = IF req.route THEN validate_status(verdict)
                                               ELSE 0]]
    /\ IN_FLIGHT' = IN_FLIGHT - 1
    /\ events' = << >>
    /\ returned' = << >>
    /\ response' = NoAnswer
    /\ UNCHANGED <<now, settings, circuit_breakers, client_pool, task>>

\* The registry and the breaker calls after the calls number i and up of
\* request r that are in flight have been cancelled, acc being those after
\* the calls before i.
RECURSIVE cancel_calls(_, _, _)
cancel_calls(r, i, acc) ==
    IF i > Len(request[r].results)
    THEN acc
    ELSE LET tk == task[child(r, i)]
         IN  IF tk.pc \in {"post", "sleep"}
             THEN LET out == call_model_cancelled(tk, tk.model_name,
                                                  acc.circuit_breakers[tk.model_name])
                  IN  cancel_calls(r, i + 1,
                          [circuit_breakers |->
                              [acc.circuit_breakers EXCEPT ![tk.model_name] = out.cb],
                           events |-> acc.events \o out.events])
             ELSE cancel_calls(r, i + 1, acc)

\* The task of validate_text is cancelled while it waits in gather(), which
\* cancels the calls that have not ended: those in flight end with
\* CancelledError, those not started never start.
Cancel(r) ==
    /\ request[r].pc = "gather"
    /\ Len(request[r].results) > 0
    /\ LET out == cancel_calls(r, 1, [circuit_breakers |-> circuit_breakers, events |-> << >>])
       IN  /\ circuit_breakers' = out.circuit_breakers
           /\ events' = out.events
    /\ task' = [t \in DOMAIN task |->
                  IF \E i \in DOMAIN request[r].results : t = child(r, i) /\ task[t].pc # "idle"
                  THEN call_model_cancelled(task[t], task[t].model_name,
                                            circuit_breakers[task[t].model_name]).task
                  ELSE task[t]]
    /\ request' = [request EXCEPT ![r].pc = "cancelling"]
    /\ returned' = << >>
    /\ response' = NoAnswer
    /\ UNCHANGED <<now, settings, client_pool, IN_FLIGHT>>

\* validate_text with IN_FLIGHT.dec() after the return statement's work
\* instead of in a finally clause: a cancelled invocation skips it.
ValidateTextCancelled_SkipsDec(r) ==
    /\ request[r].pc = "cancelling"
    /\ request' = [request EXCEPT ![r].pc = "cancelled"]
    /\ events' = << >>
    /\ returned' = << >>
    /\ response' = NoAnswer
    /\ UNCHANGED <<now, settings, circuit_breakers, client_pool, task, IN_FLIGHT>>

\* validate_text resumes with the CancelledError of gather(): no except
\* clause catches it, IN_FLIGHT.dec() runs in the finally clause and the
\* error leaves validate_text.
ValidateTextCancelled(r) ==
    /\ request[r].pc = "cancelling"
    /\ request' = [request EXCEPT ![r].pc = "cancelled"]
    /\ IN_FLIGHT' = IN_FLIGHT - 1
    /\ events' = << >>
    /\ returned' = << >>
    /\ response' = NoAnswer
    /\ UNCHANGED <<now, settings, circuit_breakers, client_pool, task>>

\* ------------------------------------------------------ specification

\* Settings: the circuit breaker configuration (CB_FAILURE_THRESHOLD,
\* CB_RECOVERY_TIMEOUT, CB_SUCCESS_THRESHOLD), read from the environment.
BreakerSettings ==
    [CB_FAILURE_THRESHOLD : {1, MaxThreshold},
     CB_SUCCESS_THRESHOLD : {1, MaxThreshold},
     CB_RECOVERY_TIMEOUT : {1, MaxTimeout}]

\* The retry configuration call_model reads (settings.RETRY_ENABLED,
\* settings.RETRY_MAX_ATTEMPTS). config.py does not declare these fields; they
\* are configuration keys of the specification (section 6).
RetrySettings ==
    [RETRY_ENABLED : BOOLEAN, RETRY_MAX_ATTEMPTS : {MaxAttempts}]

Init ==
    /\ now = 0
    /\ settings \in {[CB_FAILURE_THRESHOLD |-> b.CB_FAILURE_THRESHOLD,
                      CB_SUCCESS_THRESHOLD |-> b.CB_SUCCESS_THRESHOLD,
                      CB_RECOVERY_TIMEOUT |-> b.CB_RECOVERY_TIMEOUT,
                      RETRY_ENABLED |-> r.RETRY_ENABLED,
                      RETRY_MAX_ATTEMPTS |-> r.RETRY_MAX_ATTEMPTS] :
                        b \in BreakerSettings, r \in RetrySettings}
    /\ circuit_breakers = << >>
    /\ client_pool = {}
    /\ task = [t \in Tasks |-> IdleTask]
    /\ events = << >>
    /\ returned = << >>
    /\ request = << >>
    /\ response = NoAnswer
    /\ IN_FLIGHT = 0

Next ==
    \/ \E t \in Tasks, name \in Names : CallModel(t, name)
    \/ \E t \in Tasks, reply \in Replies : PostReturns(t, reply)
    \/ \E t \in Tasks : RetryAttempt(t)
    \/ Ready
    \/ GetCircuitBreakerStatus
    \/ \E name \in Names : ForceCloseCircuitBreaker(name)
    \/ \E name \in Names : ForceOpenCircuitBreaker(name)
    \/ Tick

Spec == Init /\ [][Next]_vars

\* The validate_text invocations that can be in progress at once.
Requests == {"r1"}

\* The enabled_models lists the direct callers of validate_text pass: up to
\* MaxEnabled names, repeated or not, of the first two configured backends.
EnabledNames == {model_names[1], model_names[2]}

EnabledLists == UNION {[1..n -> EnabledNames] : n \in 0..MaxEnabled}

\* The tasks gather() can create for one request.
Slots == 1..(IF MaxEnabled > Len(model_names) THEN MaxEnabled ELSE Len(model_names))

\* The settings of ValidateSpec: the first failure opens a breaker and calls
\* are not retried.
ValidateSettings ==
    [CB_FAILURE_THRESHOLD : {1}, CB_SUCCESS_THRESHOLD : {1},
     CB_RECOVERY_TIMEOUT : {MaxTimeout},
     RETRY_ENABLED : {FALSE}, RETRY_MAX_ATTEMPTS : {MaxAttempts}]

InitValidate ==
    /\ now = 0
    /\ settings \in ValidateSettings
    /\ circuit_breakers = << >>
    /\ client_pool = {}
    /\ task = [t \in {child(r, i) : r \in Requests, i \in Slots} |-> IdleTask]
    /\ events = << >>
    /\ returned = << >>
    /\ request = [r \in Requests |-> IdleRequest]
    /\ response = NoAnswer
    /\ IN_FLIGHT = 0

NextValidate ==
    \/ \E r \in Requests, enabled_models \in EnabledLists, strategy \in AggregationStrategy :
          ValidateText(r, enabled_models, strategy)
    \/ \E r \in Requests, i \in Slots : GatherCall(r, i)
    \/ \E r \in Requests, i \in Slots, reply \in Replies, body \in Predictions :
          ChildReturns(r, i, reply, body)
    \/ \E r \in Requests : ValidateTextReturns(r)

\* Direct calls of validate_text, with any enabled_models list and strategy,
\* made while the clock stands at 0.
ValidateSpec == InitValidate /\ [][NextValidate]_vars

\* The settings of RouteSpec: the first failure opens a breaker, and calls
\* are retried.
RouteSettings ==
    [CB_FAILURE_THRESHOLD : {1}, CB_SUCCESS_THRESHOLD : {1},
     CB_RECOVERY_TIMEOUT : {MaxTimeout},
     RETRY_ENABLED : {TRUE}, RETRY_MAX_ATTEMPTS : {MaxAttempts}]

\* The bodies the backends answer with in RouteSpec.
RoutePredictions == [flagged : BOOLEAN, score : {0}, latency_ms : {0}]

InitRoute ==
    /\ now = 0
    /\ settings \in RouteSettings
    /\ circuit_breakers = << >>
    /\ client_pool = {}
    /\ task = [t \in {child(r, i) : r \in Requests, i \in Slots} |-> IdleTask]
    /\ events = << >>
    /\ returned = << >>
    /\ request = [r \in Requests |-> IdleRequest]
    /\ response = NoAnswer
    /\ IN_FLIGHT = 0

NextRoute ==
    \/ \E r \in Requests : Validate(r)
    \/ \E r \in Requests, i \in Slots : GatherCall(r, i)
    \/ \E r \in Requests, i \in Slots, reply \in Replies, body \in RoutePredictions :
          ChildReturns(r, i, reply, body)
    \/ \E r \in Requests, i \in Slots : ChildRetry(r, i)
    \/ \E r \in Requests : ValidateTextReturns(r)

\* POST /v1/validate over the four configured backends, while the clock
\* stands at 0.
RouteSpec == InitRoute /\ [][NextRoute]_vars


\* A name that settings.model_urls does not hold.
UNKNOWN_MODEL == "unknown-model"

\* The enabled_models lists of a caller that may name an unconfigured
\* backend: up to MaxEnabled names among the first configured one and the
\* unconfigured one.
MisconfiguredLists == UNION {[1..n -> {model_names[1], UNKNOWN_MODEL}] : n \in 0..MaxEnabled}

NextMisconfigured ==
    \/ \E r \in Requests, enabled_models \in MisconfiguredLists, strategy \in {ANY_FLAG, ALL_FLAG} :
          ValidateText(r, enabled_models, strategy)
    \/ \E r \in Requests, i \in Slots : GatherCall(r, i)
    \/ \E r \in Requests, i \in Slots, reply \in Replies, body \in RoutePredictions :
          ChildReturns(r, i, reply, body)
    \/ \E r \in Requests : ValidateTextReturns(r)

\* Direct calls of validate_text whose enabled_models may hold a name that
\* is not configured, while the clock stands at 0.
MisconfiguredSpec == InitValidate /\ [][NextMisconfigured]_vars


\* The backends the callers of ReadySpec name: two of them, so that the
\* registry can hold a breaker that allows requests next to one that does
\* not.
ReadyNames == {model_names[1], model_names[2]}

InitReady ==
    /\ now = 0
    /\ settings \in ValidateSettings
    /\ circuit_breakers = << >>
    /\ client_pool = {}
    /\ task = [t \in Tasks |-> IdleTask]
    /\ events = << >>
    /\ returned = << >>
    /\ request = << >>
    /\ response = NoAnswer
    /\ IN_FLIGHT = 0

NextReady ==
    \/ \E t \in Tasks, name \in ReadyNames : CallModel(t, name)
    \/ \E t \in Tasks, reply \in Replies : PostReturns(t, reply)
    \/ Ready
    \/ Tick

\* The readiness probe next to calls of two backends, while the clock runs.
ReadySpec == InitReady /\ [][NextReady]_vars

\* The validate_text invocations of CancelSpec: two at once.
CancelRequests == {"r1", "r2"}

\* The enabled_models lists of CancelSpec: no backend, the first configured
\* one, the first two.
CancelLists == {SubSeq(model_names, 1, n) : n \in 0..2}

InitCancel ==
    /\ now = 0
    /\ settings \in RouteSettings
    /\ circuit_breakers = << >>
    /\ client_pool = {}
    /\ task = [t \in {child(r, i) : r \in CancelRequests, i \in Slots} |-> IdleTask]
    /\ events = << >>
    /\ returned = << >>
    /\ request = [r \in CancelRequests |-> IdleRequest]
    /\ response = NoAnswer
    /\ IN_FLIGHT = 0

NextCancel ==
    \/ \E r \in CancelRequests, enabled_models \in CancelLists :
          ValidateText(r, enabled_models, ANY_FLAG)
    \/ \E r \in CancelRequests, i \in Slots : GatherCall(r, i)
    \/ \E r \in CancelRequests, i \in Slots, reply \in Replies, body \in RoutePredictions :
          ChildReturns(r, i, reply, body)
    \/ \E r \in CancelRequests, i \in Slots : ChildRetry(r, i)
    \/ \E r \in CancelRequests : ValidateTextReturns(r)
    \/ \E r \in CancelRequests : Cancel(r)
    \/ \E r \in CancelRequests : ValidateTextCancelled(r)

\* Two concurrent validate_text invocations, each of which can be cancelled
\* while it waits for its calls, while the clock stands at 0.
CancelSpec == InitCancel /\ [][NextCancel]_vars

\* The enabled_models lists of ParseSpec: the first configured backend, or
\* the first two.
ParseLists == {SubSeq(model_names, 1, n) : n \in 1..2}

NextParse ==
    \/ \E r \in Requests, enabled_models \in ParseLists :
          ValidateText(r, enabled_models, THRESHOLD)
    \/ \E r \in Requests, i \in Slots : GatherCall(r, i)
    \/ \E r \in Requests, i \in Slots, reply \in Replies, body \in RawBodies \cup {NoResponse} :
          ChildReturns(r, i, reply, body)
    \/ \E r \in Requests, i \in Slots : ChildRetry(r, i)
    \/ \E r \in Requests : ValidateTextReturns(r)

\* validate_text over backends whose 2xx replies may violate the prediction
\* contract, with retries enabled, while the clock stands at 0.
ParseSpec == InitRoute /\ [][NextParse]_vars

NextRegistry ==
    \/ \E t \in Tasks, name \in ReadyNames : CallModel(t, name)
    \/ \E t \in Tasks, reply \in Replies : PostReturns(t, reply)
    \/ Ready
    \/ GetCircuitBreakerStatus
    \/ \E name \in ReadyNames : ForceCloseCircuitBreaker(name)
    \/ \E name \in ReadyNames : ForceOpenCircuitBreaker(name)
    \/ Tick

\* Calls of two backends next to the readiness probe and the debug routes,
\* while the clock runs.
RegistrySpec == InitReady /\ [][NextRegistry]_vars

\* The POST of task t ends in `reply`, the backend being one that fails up
\* to some time and answers with valid predictions from then on; that time
\* leaves a recovery timeout before the clock's last value.
BackendAnswers(t, reply) ==
    /\ reply # "ok" => now + settings.CB_RECOVERY_TIMEOUT <= MaxTime
    /\ PostReturns(t, reply)

NextRecovery ==
    \/ \E t \in Tasks, name \in Names : CallModel(t, name)
    \/ \E t \in Tasks, reply \in Replies : BackendAnswers(t, reply)
    \/ \E t \in Tasks : RetryAttempt(t)
    \/ Tick

\* What the event loop, the clock and the callers guarantee: time passes,
\* every POST ends (in a reply or in the client's timeout), every retry wait
\* ends, and calls keep arriving (a call that is admitted changes `task`, one
\* that is rejected changes `returned` unless the step before was a rejection
\* too).
FairRecovery ==
    /\ WF_now(Tick)
    /\ \A t \in Tasks : WF_task(\E reply \in Replies : BackendAnswers(t, reply))
    /\ \A t \in Tasks : WF_task(RetryAttempt(t))
    /\ WF_<<task, returned>>(\E t \in Tasks, name \in Names : CallModel(t, name))

\* Continuing traffic to a backend that fails for a while and then recovers,
\* while the clock runs.
RecoverySpec == Init /\ [][NextRecovery]_vars /\ FairRecovery

\* ------------------------------------------------------------- claims

\* The transitions of the breaker's state machine.
MachineEdges ==
    {<<CLOSED, OPEN>>, <<OPEN, HALF_OPEN>>, <<HALF_OPEN, CLOSED>>, <<HALF_OPEN, OPEN>>}

\* The calls that are not administrative overrides.
NaturalOps == {"allow_request", "record_success", "record_failure", "get_status"}

\* Whether the last step made a call `op` on a breaker.
Called(op) == \E i \in DOMAIN events : events[i].op = op

\* C1: a breaker is created Closed, and every call of allow_request,
\* record_success, record_failure or get_status either leaves its state alone
\* or moves it along Closed->Open, Open->Half-Open, Half-Open->Closed or
\* Half-Open->Open.
C1_ValidPath ==
    \A i \in DOMAIN events :
        LET e == events[i]
        IN  /\ e.op = "create" => e.post.state = CLOSED
            /\ e.op \in NaturalOps =>
                  \/ e.post.state = e.pre.state
                  \/ <<e.pre.state, e.post.state>> \in MachineEdges

\* A success closes a Half-Open breaker: the last edge of the cycle
\* Closed->Open->Half-Open->Closed.
C1_Witness ==
    \E i \in DOMAIN events :
        /\ events[i].op = "record_success"
        /\ events[i].pre.state = HALF_OPEN
        /\ events[i].post.state = CLOSED
        /\ events[i].pre.failure_count >= settings.CB_FAILURE_THRESHOLD

\* C2: record_failure on a Closed breaker adds one to failure_count, sets
\* last_failure_time to the time of the call, leaves the breaker Closed while the
\* new count is below failure_threshold and opens it when the count reaches it;
\* record_success on a Closed breaker resets failure_count to 0 and leaves it
\* Closed. So failure_count is the number of failures since the last success.
C2_ClosedCounting ==
    \A i \in DOMAIN events :
        LET e == events[i]
        IN  /\ (e.op = "record_failure" /\ e.pre.state = CLOSED) =>
                  /\ e.post.failure_count = e.pre.failure_count + 1
                  /\ e.post.last_failure_time = e.time
                  /\ e.post.failure_count < settings.CB_FAILURE_THRESHOLD
                        => e.post.state = CLOSED
                  /\ e.post.failure_count = settings.CB_FAILURE_THRESHOLD
                        => e.post.state = OPEN
                  /\ e.post.failure_count <= settings.CB_FAILURE_THRESHOLD
            /\ (e.op = "record_success" /\ e.pre.state = CLOSED) =>
                  /\ e.post.state = CLOSED
                  /\ e.post.failure_count = 0

\* The failure_threshold-th consecutive failure, which is not the first, trips
\* a Closed breaker.
C2_Witness ==
    \E i \in DOMAIN events :
        /\ events[i].op = "record_failure"
        /\ events[i].pre.state = CLOSED
        /\ events[i].pre.failure_count >= 1
        /\ events[i].post.state = OPEN
        /\ events[i].post.failure_count = settings.CB_FAILURE_THRESHOLD

\* C3: a breaker enters Half-Open with success_count 0; in Half-Open only
\* record_success changes success_count, by one; the breaker stays Half-Open while
\* the new count is below success_threshold and becomes Closed, with
\* failure_count 0, when the count reaches it.
C3_HalfOpenCloses ==
    \A i \in DOMAIN events :
        LET e == events[i]
        IN  /\ (e.pre.state # HALF_OPEN /\ e.post.state = HALF_OPEN) =>
                  e.post.success_count = 0
            /\ (e.op # "record_success" /\ e.pre.state = HALF_OPEN /\ e.post.state = HALF_OPEN) =>
                  e.post.success_count = e.pre.success_count
            /\ (e.op = "record_success" /\ e.pre.state = HALF_OPEN) =>
                  IF e.pre.success_count + 1 < settings.CB_SUCCESS_THRESHOLD
                  THEN /\ e.post.state = HALF_OPEN
                       /\ e.post.success_count = e.pre.success_count + 1
                  ELSE /\ e.pre.success_count + 1 = settings.CB_SUCCESS_THRESHOLD
                       /\ e.post.state = CLOSED
                       /\ e.post.failure_count = 0

\* The success_threshold-th success, which is not the first, closes a breaker
\* that failures had tripped.
C3_Witness ==
    \E i \in DOMAIN events :
        /\ events[i].op = "record_success"
        /\ events[i].pre.state = HALF_OPEN
        /\ events[i].pre.success_count >= 1
        /\ events[i].pre.failure_count >= settings.CB_FAILURE_THRESHOLD
        /\ events[i].post.state = CLOSED
        /\ events[i].post.failure_count = 0

\* C4: record_failure on a Half-Open breaker opens it, whatever success_count
\* is, and sets last_failure_time to the time of the call.
C4_HalfOpenFailure ==
    \A i \in DOMAIN events :
        LET e == events[i]
        IN  (e.op = "record_failure" /\ e.pre.state = HALF_OPEN) =>
               /\ e.post.state = OPEN
               /\ e.post.last_failure_time = e.time

\* A failure reopens a Half-Open breaker that had a success already and whose
\* last failure was earlier.
C4_Witness ==
    \E i \in DOMAIN events :
        /\ events[i].op = "record_failure"
        /\ events[i].pre.state = HALF_OPEN
        /\ events[i].pre.success_count >= 1
        /\ events[i].pre.last_failure_time < events[i].time
        /\ events[i].post.state = OPEN

\* C5: allow_request returns true on a Closed or Half-Open breaker; on an Open
\* breaker it returns false and changes nothing while now - last_failure_time <
\* recovery_timeout, and from recovery_timeout on it moves the breaker to
\* Half-Open, resets success_count and returns true.
C5_AllowRequest ==
    \A i \in DOMAIN events :
        LET e == events[i]
        IN  e.op = "allow_request" =>
               /\ e.pre.state \in {CLOSED, HALF_OPEN} => e.ret = TRUE
               /\ (e.pre.state = OPEN
                     /\ e.time - e.pre.last_failure_time < settings.CB_RECOVERY_TIMEOUT) =>
                     (e.ret = FALSE /\ e.post = e.pre)
               /\ (e.pre.state = OPEN
                     /\ e.time - e.pre.last_failure_time >= settings.CB_RECOVERY_TIMEOUT) =>
                     /\ e.ret = TRUE
                     /\ e.post.state = HALF_OPEN
                     /\ e.post.success_count = 0

\* allow_request exactly recovery_timeout after the last failure half-opens a
\* breaker whose success_count was not 0.
C5_Witness ==
    \E i \in DOMAIN events :
        /\ events[i].op = "allow_request"
        /\ events[i].pre.state = OPEN
        /\ events[i].time - events[i].pre.last_failure_time = settings.CB_RECOVERY_TIMEOUT
        /\ events[i].pre.success_count >= 1
        /\ events[i].ret = TRUE
        /\ events[i].post.state = HALF_OPEN

\* C6: whatever the step, a breaker goes from Open to Half-Open only when
\* now - last_failure_time >= recovery_timeout, with the last_failure_time it
\* holds before the step.
C6_RecoveryOnlyAfterTimeout ==
    [][\A n \in DOMAIN circuit_breakers :
          (circuit_breakers[n].state = OPEN /\ circuit_breakers'[n].state = HALF_OPEN)
             => now - circuit_breakers[n].last_failure_time >= settings.CB_RECOVERY_TIMEOUT
      ]_vars

\* The status snapshot half-opens a breaker whose last failure was recorded
\* after time 0.
C6_Witness ==
    \E i \in DOMAIN events :
        /\ events[i].op = "get_status"
        /\ events[i].pre.state = OPEN
        /\ events[i].pre.last_failure_time >= 1
        /\ events[i].post.state = HALF_OPEN

\* C7: a Closed breaker has failure_count < failure_threshold.
C7_ClosedBelowThreshold ==
    \A n \in DOMAIN circuit_breakers :
        circuit_breakers[n].state = CLOSED =>
            circuit_breakers[n].failure_count < settings.CB_FAILURE_THRESHOLD

\* A Closed breaker one failure short of tripping, with a call in flight.
C7_Witness ==
    \E n \in DOMAIN circuit_breakers :
        /\ circuit_breakers[n].state = CLOSED
        /\ circuit_breakers[n].failure_count >= 1
        /\ circuit_breakers[n].failure_count = settings.CB_FAILURE_THRESHOLD - 1
        /\ \E t \in Tasks : task[t].pc = "post" /\ task[t].model_name = n
        /\ Called("record_failure")

\* C8: a Half-Open breaker has success_count < success_threshold.
C8_HalfOpenBelowThreshold ==
    \A n \in DOMAIN circuit_breakers :
        circuit_breakers[n].state = HALF_OPEN =>
            circuit_breakers[n].success_count < settings.CB_SUCCESS_THRESHOLD

\* A Half-Open breaker one success short of closing, with a probe in flight.
C8_Witness ==
    \E n \in DOMAIN circuit_breakers :
        /\ circuit_breakers[n].state = HALF_OPEN
        /\ circuit_breakers[n].success_count >= 1
        /\ circuit_breakers[n].success_count = settings.CB_SUCCESS_THRESHOLD - 1
        /\ \E t \in Tasks : task[t].pc = "post" /\ task[t].model_name = n
        /\ Called("record_success")

\* C9: a call_model that ends as "breaker open" is the one whose allow_request
\* returned false; it made no POST, recorded nothing, and the step left the
\* breaker (state, counters, last_failure_time) and the calls in flight as
\* they were.
C9_RejectedCallFrame ==
    [][\A i \in DOMAIN returned' :
          LET r == returned'[i]
              rejected == \E j \in DOMAIN events' :
                              /\ events'[j].op = "allow_request"
                              /\ events'[j].name = r.model_name
                              /\ events'[j].ret = FALSE
          IN  /\ rejected <=> r.result = "breaker_open"
              /\ rejected =>
                    /\ r.posts = 0
                    /\ r.n_success = 0 /\ r.n_failure = 0
                    /\ r.model_name \in DOMAIN circuit_breakers
                    /\ circuit_breakers' = circuit_breakers
                    /\ task' = task
                    /\ \A j \in DOMAIN events' : events'[j].op = "allow_request"
      ]_vars

\* A call is rejected by a breaker that failures had opened.
C9_Witness ==
    \E i \in DOMAIN returned :
        /\ returned[i].result = "breaker_open"
        /\ circuit_breakers[returned[i].model_name].state = OPEN
        /\ circuit_breakers[returned[i].model_name].failure_count >= 1

\* The number of calls `op` the last step made on the breaker of `name`.
CountCalls(op, name) ==
    Cardinality({i \in DOMAIN events : events[i].op = op /\ events[i].name = name})

\* C10: a call in flight has recorded nothing yet, and a call that was admitted
\* and has ended made exactly one record call on its breaker, in the step that
\* ended it: record_success if it ends in a prediction, record_failure otherwise.
C10_OneOutcomeRecorded ==
    /\ \A t \in Tasks : task[t].n_success = 0 /\ task[t].n_failure = 0
    /\ \A i \in DOMAIN returned :
          LET r == returned[i]
          IN  r.result # "breaker_open" =>
                 /\ r.n_success + r.n_failure = 1
                 /\ r.n_success = CountCalls("record_success", r.model_name)
                 /\ r.n_failure = CountCalls("record_failure", r.model_name)
                 /\ r.result = "success" <=> r.n_success = 1

\* A call ends in a timeout after a retry and records one failure.
C10_Witness ==
    \E i \in DOMAIN returned :
        /\ returned[i].result = "timeout"
        /\ returned[i].attempt_number >= 2
        /\ returned[i].posts >= 2
        /\ returned[i].n_failure = 1
        /\ returned[i].n_success = 0

\* C11: a call_model makes its first POST when it is admitted and another one
\* only after a retry wait that followed a timeout or a connection error, with
\* retries enabled and fewer than RETRY_MAX_ATTEMPTS POSTs made; an attempt
\* that ends in anything else ends the call; a call that ends has made at most
\* RETRY_MAX_ATTEMPTS POSTs, and at most one when retries are disabled.
C11_RetryBounded ==
    [][/\ \A t \in DOMAIN task :
             /\ task'[t].posts > task[t].posts =>
                   \/ task[t].pc = "idle" /\ task'[t].posts = 1
                   \/ /\ task[t].pc = "sleep"
                      /\ task[t].outcome \in {"timeout", "connect_error"}
                      /\ settings.RETRY_ENABLED
                      /\ task[t].posts < settings.RETRY_MAX_ATTEMPTS
                      /\ task'[t].posts = task[t].posts + 1
             /\ (task[t].pc = "post" /\ task'[t].pc # "post") =>
                   IF task'[t].pc = "sleep"
                   THEN /\ task'[t].outcome \in {"timeout", "connect_error"}
                        /\ settings.RETRY_ENABLED
                        /\ task[t].posts < settings.RETRY_MAX_ATTEMPTS
                   ELSE /\ task'[t].pc = "idle"
                        /\ Len(returned') = 1
                        /\ returned'[1].posts = task[t].posts
       /\ \A i \in DOMAIN returned' :
             /\ returned'[i].posts <= settings.RETRY_MAX_ATTEMPTS
             /\ ~settings.RETRY_ENABLED => returned'[i].posts <= 1
             /\ returned'[i].outcome \in {"ok", "invalid_body", "http_status", "other_error"}
                   => returned'[i].posts <= 1 \/ settings.RETRY_ENABLED
             /\ returned'[i].posts >= 2 => returned'[i].retries = returned'[i].posts - 1
      ]_vars

\* A call whose first attempt timed out is retried and ends, at the last
\* attempt allowed, in a non-2xx status.
C11_Witness ==
    \E i \in DOMAIN returned :
        /\ returned[i].outcome = "http_status"
        /\ returned[i].posts = settings.RETRY_MAX_ATTEMPTS
        /\ returned[i].posts >= 2
        /\ returned[i].retries = returned[i].posts - 1

\* The ways a call_model invocation returns.
CallOutcomes == {"success", "breaker_open", "timeout", "connect_error", "http_status", "error"}

\* C12: every call_model invocation ends by returning an outcome, whatever
\* its backend did, and every validate_text invocation that ends returns a
\* verdict that accounts for each of its calls; POST /v1/validate never
\* answers 500.
C12_NoRaise ==
    /\ \A i \in DOMAIN returned : returned[i].result \in CallOutcomes
    /\ \A r \in DOMAIN request :
          /\ request[r].pc \in {"idle", "gather", "done"}
          /\ request[r].status_code # 500
          /\ request[r].pc = "done" =>
                /\ \A i \in DOMAIN request[r].results :
                      request[r].results[i].done /\ ~request[r].results[i].raised
                /\ request[r].status_code \in {200, 503}

\* Every backend fails, which opens the four breakers, and the request still
\* ends with a verdict.
C12_Witness ==
    \E r \in DOMAIN request :
        /\ request[r].pc = "done"
        /\ Len(request[r].enabled_models) = Len(model_names)
        /\ request[r].verdict.model_results = << >>
        /\ Len(request[r].verdict.failed_models) = Len(model_names)
        /\ \A i \in DOMAIN model_names :
              /\ model_names[i] \in DOMAIN circuit_breakers
              /\ circuit_breakers[model_names[i]].state = OPEN

\* The names of the results of request r that succeeded, and of those that
\* failed.
SucceededNames(r) ==
    {request[r].results[i].model_name :
        i \in {j \in DOMAIN request[r].results : request[r].results[j].success}}

FailedNames(r) ==
    {request[r].results[i].model_name :
        i \in {j \in DOMAIN request[r].results : ~request[r].results[j].success}}

\* C13: in every verdict, the number of model_results entries plus the number
\* of failed_models entries is the length of enabled_models, no name is in
\* both, model_results holds only names whose call succeeded, and
\* partial_failure tells whether failed_models is non-empty.
C13_Accounting ==
    \A r \in DOMAIN request :
        request[r].pc = "done" =>
            LET v == request[r].verdict
                failed == {v.failed_models[k] : k \in DOMAIN v.failed_models}
            IN  /\ Cardinality(DOMAIN v.model_results) + Len(v.failed_models)
                      = Len(request[r].enabled_models)
                /\ DOMAIN v.model_results \cap failed = {}
                /\ DOMAIN v.model_results \subseteq SucceededNames(r)
                /\ v.partial_failure <=> (v.failed_models # << >>)

\* C14: a validate_text invocation has one call per entry of enabled_models,
\* each of them not started, in flight, or ended with its result collected;
\* a call in flight stays so until its own POST ends it; and the verdict
\* exists only once every call has ended, each exactly once.
C14_AllAwaited ==
    \A r \in DOMAIN request :
        LET req == request[r]
            n == Len(req.enabled_models)
        IN  /\ DOMAIN req.results = 1..n
            /\ req.pc \in {"gather", "done"} =>
                  \A i \in 1..n :
                     IF req.results[i].done
                     THEN /\ task[child(r, i)].pc = "idle"
                          /\ req.results[i].model_name = req.enabled_models[i]
                          /\ Cardinality({k \in DOMAIN req.order : req.order[k] = i}) = 1
                     ELSE /\ task[child(r, i)].pc \in {"idle", "post", "sleep"}
                          /\ task[child(r, i)].pc # "idle" =>
                                task[child(r, i)].model_name = req.enabled_models[i]
                          /\ \A k \in DOMAIN req.order : req.order[k] # i
            /\ req.pc = "done" =>
                  /\ \A i \in 1..n : req.results[i].done
                  /\ Len(req.order) = n

\* The last call started fails first, the first call started succeeds last,
\* and the verdict holds both.
C14_Witness ==
    \E r \in DOMAIN request :
        /\ request[r].pc = "done"
        /\ Len(request[r].enabled_models) = Len(model_names)
        /\ request[r].order[1] = Len(model_names)
        /\ request[r].order[Len(model_names)] = 1
        /\ ~request[r].results[Len(model_names)].success
        /\ request[r].results[1].success
        /\ model_names[1] \in DOMAIN request[r].verdict.model_results
        /\ Len(request[r].verdict.failed_models) = 1

\* C15: POST /v1/validate answers 503 when every enabled backend failed, that
\* is when failed_models is as long as enabled_models, and otherwise 200 with
\* the verdict, in which partial_failure is true and failed_models lists the
\* failed backends when some backend failed.
C15_ServiceUnavailable ==
    \A r \in DOMAIN request :
        (request[r].pc = "done" /\ request[r].route) =>
            LET v == request[r].verdict
            IN  /\ request[r].status_code = 503
                      <=> Len(v.failed_models) = Len(request[r].enabled_models)
                /\ request[r].status_code = 503
                      <=> \A i \in DOMAIN request[r].results : ~request[r].results[i].success
                /\ request[r].status_code # 503 =>
                      /\ request[r].status_code = 200
                      /\ v.partial_failure <=> FailedNames(r) # {}
                      /\ {v.failed_models[k] : k \in DOMAIN v.failed_models} = FailedNames(r)

\* All backends but one failed and the route answers 200 with a partial
\* failure.
C15_Witness ==
    \E r \in DOMAIN request :
        /\ request[r].pc = "done"
        /\ request[r].route
        /\ request[r].status_code = 200
        /\ request[r].verdict.partial_failure
        /\ Len(request[r].verdict.failed_models) = Len(request[r].enabled_models) - 1
        /\ Cardinality(DOMAIN request[r].verdict.model_results) = 1

\* C16: in every verdict, each flag_reasons entry is "<name>_flagged" for a
\* name that model_results holds with flagged = true, and each name that
\* model_results holds with flagged = true has exactly one such entry; so a
\* failed backend and a backend that did not flag have none.
C16_FlagReasons ==
    \A r \in DOMAIN request :
        request[r].pc = "done" =>
            LET v == request[r].verdict
            IN  /\ \A k \in DOMAIN v.flag_reasons :
                      \E n \in DOMAIN v.model_results :
                          /\ v.flag_reasons[k] = n \o "_flagged"
                          /\ v.model_results[n].flagged
                /\ \A n \in DOMAIN v.model_results :
                      v.model_results[n].flagged =>
                          Cardinality({k \in DOMAIN v.flag_reasons :
                                          v.flag_reasons[k] = n \o "_flagged"}) = 1

\* The i-th smallest element of the set S of numbers.
Nth(S, i) == CHOOSE x \in S : Cardinality({y \in S : y <= x}) = i

\* C17: flag_reasons lists the calls that succeeded and flagged, and
\* failed_models the calls that failed, by increasing position in
\* enabled_models, whatever the order the calls ended in.
C17_EnumerationOrder ==
    \A r \in DOMAIN request :
        request[r].pc = "done" =>
            LET req == request[r]
                Flagged == {i \in DOMAIN req.results :
                               req.results[i].success /\ req.results[i].response.flagged}
                Failed == {i \in DOMAIN req.results : ~req.results[i].success}
            IN  /\ Len(req.verdict.flag_reasons) = Cardinality(Flagged)
                /\ \A k \in DOMAIN req.verdict.flag_reasons :
                      req.verdict.flag_reasons[k] =
                          req.enabled_models[Nth(Flagged, k)] \o "_flagged"
                /\ Len(req.verdict.failed_models) = Cardinality(Failed)
                /\ \A k \in DOMAIN req.verdict.failed_models :
                      req.verdict.failed_models[k] = req.enabled_models[Nth(Failed, k)]

\* Two different backends flag, the second one answering first, and the
\* reasons are in the order of enabled_models.
C17_Witness ==
    \E r \in DOMAIN request :
        /\ request[r].pc = "done"
        /\ Len(request[r].enabled_models) >= 2
        /\ request[r].enabled_models[1] # request[r].enabled_models[2]
        /\ request[r].order[1] = 2
        /\ Len(request[r].verdict.flag_reasons) >= 2
        /\ request[r].verdict.flag_reasons[1] = request[r].enabled_models[1] \o "_flagged"
        /\ request[r].verdict.flag_reasons[2] = request[r].enabled_models[2] \o "_flagged"

\* C18: under ANY_FLAG the verdict is flagged exactly when some call that
\* succeeded returned flagged = true, which is exactly when flag_reasons is
\* not empty; calls that failed play no part.
C18_AnyFlag ==
    \A r \in DOMAIN request :
        (request[r].pc = "done" /\ request[r].strategy = ANY_FLAG) =>
            /\ request[r].verdict.flagged <=>
                  \E i \in DOMAIN request[r].results :
                      /\ request[r].results[i].success
                      /\ request[r].results[i].response.flagged
            /\ request[r].verdict.flagged <=> request[r].verdict.flag_reasons # << >>

\* C19: under ALL_FLAG the verdict is flagged exactly when model_results is
\* not empty and each of its entries has flagged = true, whether or not other
\* backends failed.
C19_AllFlag ==
    \A r \in DOMAIN request :
        (request[r].pc = "done" /\ request[r].strategy = ALL_FLAG) =>
            LET v == request[r].verdict
            IN  /\ v.flagged <=>
                      /\ DOMAIN v.model_results # {}
                      /\ \A n \in DOMAIN v.model_results : v.model_results[n].flagged
                /\ DOMAIN v.model_results \subseteq SucceededNames(r)

\* One backend failed, every other one flagged, and the ALL_FLAG verdict is
\* flagged.
C19_Witness ==
    \E r \in DOMAIN request :
        /\ request[r].pc = "done"
        /\ request[r].strategy = ALL_FLAG
        /\ request[r].verdict.failed_models # << >>
        /\ DOMAIN request[r].verdict.model_results # {}
        /\ DOMAIN request[r].verdict.model_results
              \cap {request[r].verdict.failed_models[k] :
                       k \in DOMAIN request[r].verdict.failed_models} = {}
        /\ request[r].verdict.flagged

C22_EmptyNotFlagged ==
    \A r \in DOMAIN request :
        /\ (request[r].pc = "done" /\ DOMAIN request[r].verdict.model_results = {}) =>
              /\ request[r].strategy \in AggregationStrategy
              /\ ~request[r].verdict.flagged
        /\ (request[r].pc \in {"done", "raised"}
              /\ \A i \in DOMAIN request[r].results :
                    request[r].results[i].done /\ ~request[r].results[i].success
                       /\ ~request[r].results[i].raised) =>
              /\ request[r].pc = "done"
              /\ DOMAIN request[r].verdict.model_results = {}

\* Every enabled backend failed and the THRESHOLD verdict, over no score at
\* all, is not flagged.
C22_Witness ==
    \E r \in DOMAIN request :
        /\ request[r].pc = "done"
        /\ request[r].strategy = THRESHOLD
        /\ Len(request[r].enabled_models) >= 2
        /\ Len(request[r].verdict.failed_models) = Len(request[r].enabled_models)
        /\ DOMAIN request[r].verdict.model_results = {}
        /\ ~request[r].verdict.flagged

\* The positions of enabled_models of request r that hold a name which is not
\* configured.
UnknownSlots(r) ==
    {i \in DOMAIN request[r].enabled_models : request[r].enabled_models[i] \notin model_urls}

C25_ForceLegal ==
    /\ \A i \in DOMAIN events :
          LET e == events[i]
          IN  /\ e.op = "force_close" =>
                    /\ e.post.state = CLOSED
                    /\ e.post.failure_count = 0
                    /\ e.post.gauge = StateValue(CLOSED)
              /\ e.op = "force_open" =>
                    /\ e.post.state = OPEN
                    /\ e.post.last_failure_time = e.time
                    /\ e.post.gauge = StateValue(OPEN)
    /\ \A n \in DOMAIN circuit_breakers :
          LET b == circuit_breakers[n]
          IN  /\ b.failure_count >= 0
              /\ b.success_count >= 0
              /\ b.state \in {CLOSED, OPEN, HALF_OPEN}
              /\ b.state = CLOSED => b.failure_count < settings.CB_FAILURE_THRESHOLD
              /\ b.state = HALF_OPEN => b.success_count < settings.CB_SUCCESS_THRESHOLD

\* force_open hits a Half-Open breaker that has counted a success, later than
\* its last failure and while a probe is in flight.
C25_Witness ==
    \E i \in DOMAIN events :
        /\ events[i].op = "force_open"
        /\ events[i].pre.state = HALF_OPEN
        /\ events[i].pre.success_count >= 1
        /\ events[i].pre.last_failure_time < events[i].time
        /\ events[i].post.state = OPEN
        /\ \E t \in Tasks : task[t].pc = "post" /\ task[t].model_name = events[i].name

C27_InvalidBodyFails ==
    /\ \A t \in DOMAIN task :
          task[t].pc = "sleep" => task[t].outcome \in {"timeout", "connect_error"}
    /\ \A i \in DOMAIN returned :
          returned[i].outcome = "invalid_body" =>
              /\ returned[i].result = "error"
              /\ returned[i].n_failure = 1
              /\ returned[i].n_success = 0
              /\ CountCalls("record_failure", returned[i].model_name) = 1
              /\ CountCalls("record_success", returned[i].model_name) = 0
    /\ \A r \in DOMAIN request :
          request[r].pc = "done" =>
              LET v == request[r].verdict
              IN  /\ \A n \in DOMAIN v.model_results :
                        /\ v.model_results[n].score >= 0
                        /\ v.model_results[n].score <= 2
                        /\ v.model_results[n].latency_ms >= 0
                  /\ \A i \in DOMAIN request[r].results :
                        LET res == request[r].results[i]
                        IN  (res.body.score < 0 \/ res.body.score > 2
                                \/ res.body.latency_ms < 0) =>
                                /\ ~res.success
                                /\ res.response = NoResponse
                                /\ \E k \in DOMAIN v.failed_models :
                                      v.failed_models[k] = request[r].enabled_models[i]
                                /\ request[r].enabled_models[i] \notin DOMAIN v.model_results

\* One backend answers with score 1.0 and the other with a score above 1.0:
\* the verdict holds the first, lists the second as failed, and the second's
\* breaker has counted the failure.
C27_Witness ==
    \E r \in DOMAIN request :
        /\ request[r].pc = "done"
        /\ Len(request[r].results) = 2
        /\ request[r].results[1].success
        /\ request[r].results[1].response.score = 2
        /\ request[r].results[2].body.score = 3
        /\ request[r].results[2].body.latency_ms = 0
        /\ request[r].verdict.failed_models = << request[r].enabled_models[2] >>
        /\ DOMAIN request[r].verdict.model_results = {request[r].enabled_models[1]}
        /\ circuit_breakers[request[r].enabled_models[2]].failure_count = 1
        /\ circuit_breakers[request[r].enabled_models[2]].state = OPEN

\* C28: every record_success and record_failure finds the lock of its breaker
\* free, so it takes it without waiting, and has released it when the step
\* ends; a step makes at most one of these calls; so no lock is held in any
\* state, in particular not while a POST or a retry wait is in progress, and
\* no call waits for a lock.
C28_RecordSerialised ==
    /\ \A n \in DOMAIN circuit_breakers : ~circuit_breakers[n].locked
    /\ \A i \in DOMAIN events :
          events[i].op \in {"record_success", "record_failure"} =>
              /\ ~events[i].pre.locked
              /\ ~events[i].post.locked
    /\ Cardinality({i \in DOMAIN events :
                       events[i].op \in {"record_success", "record_failure"}}) <= 1
    /\ \A t \in DOMAIN task : task[t].pc \in {"idle", "post", "sleep"}

\* A call records a failure on a breaker that has recorded outcomes before,
\* while another call on the same breaker is in its retry wait.
C28_Witness ==
    \E i \in DOMAIN events :
        /\ events[i].op = "record_failure"
        /\ events[i].pre.failure_count >= 1
        /\ \E t \in Tasks : task[t].pc = "sleep" /\ task[t].model_name = events[i].name

\* C29: of the allow_request calls made on an Open breaker whose timeout has
\* elapsed, the first moves it to Half-Open with success_count 0 and the
\* later ones find it Half-Open and change nothing, so allow_request changes
\* success_count only in that first call and a success counted since is
\* kept; and of the successes recorded in Half-Open, the one that reaches
\* success_threshold closes the breaker and the later ones find it Closed and
\* leave it Closed, success_count untouched.
C29_IdempotentTransitions ==
    \A i \in DOMAIN events :
        LET e == events[i]
        IN  /\ e.op = "allow_request" =>
                  /\ e.pre.state = HALF_OPEN => (e.post = e.pre /\ e.ret = TRUE)
                  /\ e.post.success_count # e.pre.success_count =>
                        /\ e.pre.state = OPEN
                        /\ e.post.state = HALF_OPEN
                        /\ e.post.success_count = 0
                  /\ (e.pre.state = OPEN
                        /\ e.time - e.pre.last_failure_time >= settings.CB_RECOVERY_TIMEOUT) =>
                        e.post.state = HALF_OPEN
            /\ e.op = "record_success" =>
                  /\ (e.pre.state = HALF_OPEN /\ e.post.state = CLOSED) =>
                        e.pre.success_count + 1 = settings.CB_SUCCESS_THRESHOLD
                  /\ e.pre.state = CLOSED =>
                        /\ e.post.state = CLOSED
                        /\ e.post.success_count = e.pre.success_count
                        /\ e.post.gauge = e.pre.gauge

\* A second caller is admitted by a Half-Open breaker after a probe has
\* succeeded, the timeout being long elapsed, and the success stays counted.
C29_Witness ==
    \E i \in DOMAIN events :
        /\ events[i].op = "allow_request"
        /\ events[i].pre.state = HALF_OPEN
        /\ events[i].pre.success_count >= 1
        /\ events[i].time - events[i].pre.last_failure_time >= settings.CB_RECOVERY_TIMEOUT
        /\ events[i].post.success_count = events[i].pre.success_count
        /\ events[i].ret = TRUE
        /\ \E t \in Tasks : task[t].pc = "post" /\ task[t].model_name = events[i].name

\* The validate_text invocations that have entered and not exited.
Running == {r \in DOMAIN request : request[r].pc \in {"gather", "cancelling"}}

\* C30: IN_FLIGHT is the number of validate_text invocations that have
\* entered and not exited, whether the others returned a verdict, raised or
\* were cancelled; so it is never negative and it is 0 when none is running.
C30_InFlightGauge ==
    /\ IN_FLIGHT = Cardinality(Running)
    /\ IN_FLIGHT >= 0
    /\ Running = {} => IN_FLIGHT = 0

\* One invocation has been cancelled and has exited, another one is waiting
\* for a call in flight, and the gauge is 1.
C30_Witness ==
    /\ \E r \in DOMAIN request : request[r].pc = "cancelled"
    /\ \E r \in DOMAIN request :
          /\ request[r].pc = "gather"
          /\ \E i \in DOMAIN request[r].results : task[child(r, i)].pc = "post"
    /\ IN_FLIGHT = 1


\* C31: a call_model invocation that was admitted and has ended, in a
\* prediction or in a failure of any kind, has made exactly one observation of
\* MODEL_CALL_LATENCY, and a call waiting for its next attempt has made none.
C31_OneLatencyObservation ==
    /\ \A t \in DOMAIN task : task[t].pc = "sleep" => task[t].latency_obs = 0
    /\ \A i \in DOMAIN returned :
          returned[i].result # "breaker_open" => returned[i].latency_obs = 1

C33_LateOutcome ==
    \A i \in DOMAIN events :
        LET e == events[i]
        IN  e.pre.state = OPEN =>
               /\ e.op = "record_success" => e.post = e.pre
               /\ e.op = "record_failure" =>
                     e.post = [e.pre EXCEPT !.failure_count = @ + 1,
                                            !.last_failure_time = e.time]

\* A call admitted before the breaker opened fails after it has opened, at
\* a later time than the failure that opened it, after the recovery timeout
\* measured from that failure and while no caller has asked since.
C33_Witness ==
    \E i \in DOMAIN events :
        /\ events[i].op = "record_failure"
        /\ events[i].pre.state = OPEN
        /\ events[i].pre.failure_count >= settings.CB_FAILURE_THRESHOLD
        /\ events[i].time - events[i].pre.last_failure_time >= settings.CB_RECOVERY_TIMEOUT
        /\ events[i].post.state = OPEN
        /\ events[i].post.last_failure_time = now

\* C34: a get_status call (GET /debug/circuit-breakers) and an allow_request
\* call (the readiness probe makes one per breaker) leave failure_count and
\* last_failure_time as they were, change nothing of a breaker that is Closed
\* or Half-Open, nor of an Open one whose recovery timeout has not elapsed,
\* and move an Open one whose timeout has elapsed to Half-Open with
\* success_count 0; the breaker is left as the call made it, and the snapshot
\* shows it so: it never shows Open once the timeout has elapsed.
C34_QueriesReadOnly ==
    \A i \in DOMAIN events :
        LET e == events[i]
            elapsed == e.time - e.pre.last_failure_time >= settings.CB_RECOVERY_TIMEOUT
        IN  e.op \in {"get_status", "allow_request"} =>
               /\ e.post.failure_count = e.pre.failure_count
               /\ e.post.last_failure_time = e.pre.last_failure_time
               /\ e.pre.state \in {CLOSED, HALF_OPEN} => e.post = e.pre
               /\ (e.pre.state = OPEN /\ ~elapsed) => e.post = e.pre
               /\ (e.pre.state = OPEN /\ elapsed) =>
                     e.post = [e.pre EXCEPT !.state = HALF_OPEN,
                                            !.gauge = StateValue(HALF_OPEN),
                                            !.success_count = 0]
               /\ circuit_breakers[e.name] = e.post
               /\ e.op = "get_status" =>
                     /\ e.ret = [state |-> e.post.state,
                                 failure_count |-> e.post.failure_count,
                                 success_count |-> e.post.success_count,
                                 last_failure_time |-> e.post.last_failure_time]
                     /\ elapsed => e.ret.state # OPEN

\* The debug route reads a breaker that failed as a probe after a first
\* success and has been Open for the recovery timeout: the snapshot shows it
\* Half-Open with success_count 0 and the failures still counted.
C34_Witness ==
    \E i \in DOMAIN events :
        /\ events[i].op = "get_status"
        /\ events[i].pre.state = OPEN
        /\ events[i].pre.success_count >= 1
        /\ events[i].pre.failure_count >= 1
        /\ events[i].ret.state = HALF_OPEN
        /\ events[i].ret.success_count = 0
        /\ events[i].ret.failure_count = events[i].pre.failure_count
        /\ circuit_breakers[events[i].name].state = HALF_OPEN

\* The positions, in the breaker calls of the last step, of the calls on the
\* breaker of n.
CallsOn(evs, n) == {i \in DOMAIN evs : evs[i].name = n}

\* C35: the registry never loses a name. A name enters it in a step that
\* creates its breaker, once and before any other call on it, Closed with its
\* counters at 0; a name already in it is never created again, and the first
\* call a step makes on it finds the breaker the registry held. Each call on
\* a breaker finds it as the previous call on it left it, and the registry
\* holds it as the last call left it; a breaker on which a step makes no call
\* is not changed by the step, whatever the step does to the others.
C35_BreakersIndependent ==
    [][/\ DOMAIN circuit_breakers \subseteq DOMAIN circuit_breakers'
       /\ \A n \in DOMAIN circuit_breakers' :
             LET idx == CallsOn(events', n)
                 first == CHOOSE i \in idx : \A j \in idx : i <= j
                 last == CHOOSE i \in idx : \A j \in idx : j <= i
             IN  /\ n \notin DOMAIN circuit_breakers =>
                       /\ idx # {}
                       /\ events'[first].op = "create"
                       /\ events'[first].post.state = CLOSED
                       /\ events'[first].post.failure_count = 0
                       /\ events'[first].post.success_count = 0
                       /\ events'[first].post.gauge = 0
                 /\ n \in DOMAIN circuit_breakers =>
                       /\ idx = {} => circuit_breakers'[n] = circuit_breakers[n]
                       /\ idx # {} => events'[first].pre = circuit_breakers[n]
                 /\ \A i \in idx :
                       /\ events'[i].op = "create" =>
                             i = first /\ n \notin DOMAIN circuit_breakers
                       /\ i # first =>
                             \E j \in idx :
                                /\ j < i
                                /\ \A k \in idx : ~(j < k /\ k < i)
                                /\ events'[i].pre = events'[j].post
                 /\ idx # {} => circuit_breakers'[n] = events'[last].post
       /\ \A i \in DOMAIN events' : events'[i].name \in DOMAIN circuit_breakers'
      ]_vars

\* A call of one backend fails and opens its breaker, while the breaker of
\* another backend, which has been called too, stays Closed with no failure
\* counted and a call of it is in flight.
C35_Witness ==
    \E i \in DOMAIN events : \E n \in DOMAIN circuit_breakers :
        /\ events[i].op = "record_failure"
        /\ events[i].name # n
        /\ events[i].post.state = OPEN
        /\ circuit_breakers[events[i].name].failure_count = 1
        /\ circuit_breakers[n].state = CLOSED
        /\ circuit_breakers[n].failure_count = 0
        /\ \E t \in Tasks : task[t].pc = "post" /\ task[t].model_name = n

\* C37: the gauge of every breaker is the value of its state, 0 for Closed,
\* 1 for Open and 2 for Half-Open, in every state and after each of the calls
\* a step makes on it: its creation, allow_request, get_status,
\* record_success, record_failure, force_open and force_close.
C37_GaugeFollowsState ==
    /\ \A n \in DOMAIN circuit_breakers :
          /\ circuit_breakers[n].state = CLOSED => circuit_breakers[n].gauge = 0
          /\ circuit_breakers[n].state = OPEN => circuit_breakers[n].gauge = 1
          /\ circuit_breakers[n].state = HALF_OPEN => circuit_breakers[n].gauge = 2
    /\ \A i \in DOMAIN events :
          /\ events[i].op \in {"create", "allow_request", "get_status", "record_success",
                               "record_failure", "force_open", "force_close"}
          /\ events[i].post.state = CLOSED => events[i].post.gauge = 0
          /\ events[i].post.state = OPEN => events[i].post.gauge = 1
          /\ events[i].post.state = HALF_OPEN => events[i].post.gauge = 2

\* A probe succeeds and closes a Half-Open breaker: the gauge goes from 2
\* to 0.
C37_Witness ==
    \E i \in DOMAIN events :
        /\ events[i].op = "record_success"
        /\ events[i].pre.state = HALF_OPEN
        /\ events[i].pre.gauge = 2
        /\ events[i].pre.failure_count >= 1
        /\ events[i].post.state = CLOSED
        /\ circuit_breakers[events[i].name].gauge = 0

\* C36: an allow_request call on an Open breaker returns false without
\* changing it while the recovery timeout has not elapsed since the last
\* recorded failure, and once it has elapsed the call returns true and leaves
\* the breaker Half-Open; and, calls continuing to arrive at a backend that
\* ends up answering with valid predictions, a breaker that is Open is
\* eventually Half-Open and eventually Closed again.
C36_OpenRecovers ==
    /\ [](\A i \in DOMAIN events :
             LET e == events[i]
             IN  (e.op = "allow_request" /\ e.pre.state = OPEN) =>
                    IF e.time - e.pre.last_failure_time >= settings.CB_RECOVERY_TIMEOUT
                    THEN e.ret = TRUE /\ e.post.state = HALF_OPEN
                    ELSE e.ret = FALSE /\ e.post = e.pre)
    /\ \A n \in Names :
          (n \in DOMAIN circuit_breakers /\ circuit_breakers[n].state = OPEN)
             ~> (n \in DOMAIN circuit_breakers /\ circuit_breakers[n].state = HALF_OPEN)
    /\ \A n \in Names :
          (n \in DOMAIN circuit_breakers /\ circuit_breakers[n].state = OPEN)
             ~> (n \in DOMAIN circuit_breakers /\ circuit_breakers[n].state = CLOSED)

\* A breaker that failures had opened, the last of them recorded after it had
\* opened, is closed again by the success of a probe.
C36_Witness ==
    \E i \in DOMAIN events :
        /\ events[i].op = "record_success"
        /\ events[i].pre.state = HALF_OPEN
        /\ events[i].pre.failure_count > settings.CB_FAILURE_THRESHOLD
        /\ events[i].pre.last_failure_time >= 1
        /\ events[i].post.state = CLOSED
        /\ circuit_breakers[events[i].name].state = CLOSED

=============================================================================
